---- MODULE Spec2Model ----
(***************************************************************************)
(* AsyncQueue (src/AsyncQueue.js): a bounded-concurrency task runner with  *)
(* per-task retry and cooperative cancellation.                            *)
(*                                                                         *)
(* JavaScript runs one job at a time: an action of this model is one job   *)
(* (a synchronous call from the caller, the continuation of an await or a  *)
(* timer callback) run to its next suspension point.  JavaScript arrays    *)
(* are functions on 0..length-1.                                           *)
(***************************************************************************)
EXTENDS Integers, FiniteSets, Sequences, TLC

\* Bounds of the model.
MaxConcurrency == 2
MaxRetries == 1
MaxTasks == 3

VARIABLES
    queue,      \* the fields of the AsyncQueue object
    frames,     \* per claimed index: the suspended _processNext / runTaskWithRetry call
    calls,      \* per index: the outcomes of the invocations of tasks[index], in order
    promise,    \* the promise returned by run(): its state and the array it delivered
    inFlightAtCancel,  \* the indices whose invocation was in flight when the run was cancelled
    construction,  \* the constructor call: its concurrency argument and whether it threw
    firstInvoked,  \* the indices in the order in which their first invocation began
    history     \* which array object this.results is, whether the array the previous run
                \* delivered was written to, and whether run() was just called again

vars == <<queue, frames, calls, promise, inFlightAtCancel, construction, firstInvoked, history>>

Min(a, b) == IF a < b THEN a ELSE b

Length(arr) == Cardinality(DOMAIN arr)

EmptyArray == [i \in {} |-> 0]

----------------------------------------------------------------------------
\* Values, errors and result records.

NoValue == [task |-> -1, attempt |-> -1]

\* The value tasks[i] resolves with on its attempt a.
TaskValue(i, a) == [task |-> i, attempt |-> a]

NullError == [isError |-> FALSE, message |-> "null", task |-> -1, attempt |-> -1]

\* What tasks[i] rejects with on its attempt a: an Error object or any other value.
TaskFailure(i, a, isErr) == [isError |-> isErr, message |-> "fail", task |-> i, attempt |-> a]

\* new Error(message)
NewError(msg) == [isError |-> TRUE, message |-> msg, task |-> -1, attempt |-> -1]

LoopCancelMessage == "Task cancelled"

FillCancelMessage == "Task cancelled via cancelAll()"

\* err instanceof Error ? err : new Error(String(err))
NormalizeError(err) == IF err.isError THEN err ELSE [err EXCEPT !.isError = TRUE]

NullResult == [status |-> "null", value |-> NoValue, error |-> NullError]

Success(v) == [status |-> "success", value |-> v, error |-> NullError]

Captured(e) == [status |-> "captured", value |-> NoValue, error |-> e]

NoReturn == [kind |-> "none", result |-> NullResult, error |-> NullError]

Returned(r) == [kind |-> "return", result |-> r, error |-> NullError]

Thrown(e) == [kind |-> "throw", result |-> NullResult, error |-> e]

NewFrame == [pc |-> "unclaimed", attempt |-> 0, theError |-> NullError, ret |-> NoReturn]

----------------------------------------------------------------------------
\* The synchronous code, as functions of the whole state
\* s = [queue, frames, calls, promise, firstInvoked, history].

Aborted(s) == s.queue.abortController = "aborted"

\* resolve(value) of the promise created by run(): settles it once, later calls do nothing.
ResolveQueue(s, value) ==
    IF s.promise.state = "pending"
    THEN [s EXCEPT !.promise = [state |-> "resolved", value |-> value]]
    ELSE s

\* A fill that replaces every slot, written or not.
FillCancelled_All(results) ==
    [i \in DOMAIN results |-> Captured(NewError(FillCancelMessage))]

\* results.map(res => res === null ? {status: 'captured', error: cancelErr} : res)
FillCancelled(results) ==
    [i \in DOMAIN results |->
        IF results[i] = NullResult THEN Captured(NewError(FillCancelMessage)) ELSE results[i]]

\* Completion without the test of runningCount.
CheckCompletion_NoCount(s) ==
    LET s1 == IF Aborted(s)
              THEN [s EXCEPT !.queue.results = FillCancelled(@),
                                 !.history.resultsObject = "mapped"]
              ELSE s
    IN  ResolveQueue(s1, s1.queue.results)

\* Completion that tolerates one task still running.
CheckCompletion_OffByOne(s) ==
    IF s.queue.runningCount <= 1
    THEN LET s1 == IF Aborted(s)
                   THEN [s EXCEPT !.queue.results = FillCancelled(@),
                                 !.history.resultsObject = "mapped"]
                   ELSE s
         IN  ResolveQueue(s1, s1.queue.results)
    ELSE s

CheckCompletion(s) ==
    IF s.queue.runningCount = 0
    THEN LET s1 == IF Aborted(s)
                   THEN [s EXCEPT !.queue.results = FillCancelled(@),
                                 !.history.resultsObject = "mapped"]
                   ELSE s
         IN  ResolveQueue(s1, s1.queue.results)
    ELSE s

\* The retry loop with the loop condition attempt < howManyRetries.
LoopHead_OneFewer(s, i, attempt) ==
    IF attempt >= s.queue.retryAttempts
    THEN [s EXCEPT !.frames[i].pc = "settled",
                   !.frames[i].attempt = attempt,
                   !.frames[i].ret = Returned(Captured(NormalizeError(s.frames[i].theError)))]
    ELSE IF Aborted(s)
    THEN [s EXCEPT !.frames[i].pc = "settled",
                   !.frames[i].attempt = attempt,
                   !.frames[i].ret = Thrown(NewError(LoopCancelMessage))]
    ELSE [s EXCEPT !.frames[i].pc = "awaitTask",
                   !.frames[i].attempt = attempt,
                   !.calls[i] = Append(@, "pending"),
                   !.firstInvoked = IF attempt = 0 THEN Append(@, i) ELSE @]

\* The head of the retry loop of runTaskWithRetry for index i with loop variable attempt:
\* the loop condition, the abort check and the invocation of the task.
LoopHead(s, i, attempt) ==
    IF attempt > s.queue.retryAttempts
    THEN [s EXCEPT !.frames[i].pc = "settled",
                   !.frames[i].attempt = attempt,
                   !.frames[i].ret = Returned(Captured(NormalizeError(s.frames[i].theError)))]
    ELSE IF Aborted(s)
    THEN [s EXCEPT !.frames[i].pc = "settled",
                   !.frames[i].attempt = attempt,
                   !.frames[i].ret = Thrown(NewError(LoopCancelMessage))]
    ELSE [s EXCEPT !.frames[i].pc = "awaitTask",
                   !.frames[i].attempt = attempt,
                   !.calls[i] = Append(@, "pending"),
                   !.firstInvoked = IF attempt = 0 THEN Append(@, i) ELSE @]

\* A catch block that keeps the first error instead of the most recent one.
CatchFailure_KeepFirst(s, i, err) ==
    LET attempt == s.frames[i].attempt
        s1 == [s EXCEPT !.frames[i].theError = IF @ = NullError THEN err ELSE @,
                        !.calls[i] = [@ EXCEPT ![Len(@)] = "err"]]
    IN  IF attempt < s.queue.retryAttempts /\ ~Aborted(s)
        THEN [s1 EXCEPT !.frames[i].pc = "awaitTimer"]
        ELSE LoopHead(s1, i, attempt + 1)

\* A catch block that waits whenever retries remain, aborted or not.
CatchFailure_WaitAnyway(s, i, err) ==
    LET attempt == s.frames[i].attempt
        s1 == [s EXCEPT !.frames[i].theError = err,
                        !.calls[i] = [@ EXCEPT ![Len(@)] = "err"]]
    IN  IF attempt < s.queue.retryAttempts
        THEN [s1 EXCEPT !.frames[i].pc = "awaitTimer"]
        ELSE LoopHead(s1, i, attempt + 1)

\* The catch block of the retry loop: record the error, then wait or go on.
CatchFailure(s, i, err) ==
    LET attempt == s.frames[i].attempt
        s1 == [s EXCEPT !.frames[i].theError = err,
                        !.calls[i] = [@ EXCEPT ![Len(@)] = "err"]]
    IN  IF attempt < s.queue.retryAttempts /\ ~Aborted(s)
        THEN [s1 EXCEPT !.frames[i].pc = "awaitTimer"]
        ELSE LoopHead(s1, i, attempt + 1)

\* _processNext without the test of the abort signal.
ProcessNext_IgnoreAbort(s) ==
    IF s.queue.nextTaskIndex >= Length(s.queue.tasks)
    THEN CheckCompletion(s)
    ELSE LET currentIndex == s.queue.nextTaskIndex
             s1 == [s EXCEPT !.queue.nextTaskIndex = @ + 1,
                             !.queue.runningCount = @ + 1]
         IN  LoopHead(s1, currentIndex, 0)

\* _processNext reading the cursor without advancing it.
ProcessNext_NoIncrement(s) ==
    IF s.queue.nextTaskIndex >= Length(s.queue.tasks) \/ Aborted(s)
    THEN CheckCompletion(s)
    ELSE LET currentIndex == s.queue.nextTaskIndex
             s1 == [s EXCEPT !.queue.runningCount = @ + 1]
         IN  LoopHead(s1, currentIndex, 0)

\* _processNext taking the tasks from the end of the array.
ProcessNext_Lifo(s) ==
    IF s.queue.nextTaskIndex >= Length(s.queue.tasks) \/ Aborted(s)
    THEN CheckCompletion(s)
    ELSE LET currentIndex == Length(s.queue.tasks) - 1 - s.queue.nextTaskIndex
             s1 == [s EXCEPT !.queue.nextTaskIndex = @ + 1,
                             !.queue.runningCount = @ + 1]
         IN  LoopHead(s1, currentIndex, 0)

\* _processNext up to its await.
ProcessNext(s) ==
    IF s.queue.nextTaskIndex >= Length(s.queue.tasks) \/ Aborted(s)
    THEN CheckCompletion(s)
    ELSE LET currentIndex == s.queue.nextTaskIndex
             s1 == [s EXCEPT !.queue.nextTaskIndex = @ + 1,
                             !.queue.runningCount = @ + 1]
         IN  LoopHead(s1, currentIndex, 0)

\* for (let i = 0; i < initialBatch; i++) this._processNext()
RECURSIVE ProcessBatch(_, _)
ProcessBatch(s, n) == IF n = 0 THEN s ELSE ProcessBatch(ProcessNext(s), n - 1)

\* An initial batch that starts every task.
InitialBatch_All(q) == Length(q.tasks)

\* An initial batch of a single chain.
InitialBatch_One(q) == Min(1, Length(q.tasks))

InitialBatch(q) == Min(q.maxAtSameTime, Length(q.tasks))

\* A continuation that stores results in completion order.
ResumeProcessNext_ByCompletion(s, i) ==
    LET ret == s.frames[i].ret
        rec == IF ret.kind = "return" THEN ret.result ELSE Captured(NormalizeError(ret.error))
        s1 == [s EXCEPT !.queue.results[s.queue.finishedCount] = rec,
                        !.queue.runningCount = @ - 1,
                        !.queue.finishedCount = @ + 1,
                        !.frames[i] = [NewFrame EXCEPT !.pc = "finished"],
                        !.history.previousModified = @ \/ s.history.resultsObject = "previous"]
    IN  ProcessNext(s1)

\* A continuation whose chain stops after a captured result.
ResumeProcessNext_StopOnCaptured(s, i) ==
    LET ret == s.frames[i].ret
        rec == IF ret.kind = "return" THEN ret.result ELSE Captured(NormalizeError(ret.error))
        s1 == [s EXCEPT !.queue.results[i] = rec,
                        !.queue.runningCount = @ - 1,
                        !.queue.finishedCount = @ + 1,
                        !.frames[i] = [NewFrame EXCEPT !.pc = "finished"],
                        !.history.previousModified = @ \/ s.history.resultsObject = "previous"]
    IN  IF rec.status = "captured" THEN s1 ELSE ProcessNext(s1)

\* _processNext after its await: the try/catch around the result, then finally.
ResumeProcessNext(s, i) ==
    LET ret == s.frames[i].ret
        rec == IF ret.kind = "return" THEN ret.result ELSE Captured(NormalizeError(ret.error))
        s1 == [s EXCEPT !.queue.results[i] = rec,
                        !.queue.runningCount = @ - 1,
                        !.queue.finishedCount = @ + 1,
                        !.frames[i] = [NewFrame EXCEPT !.pc = "finished"],
                        !.history.previousModified = @ \/ s.history.resultsObject = "previous"]
    IN  ProcessNext(s1)

\* An abort that also moves the cursor past the remaining tasks.
Abort_DrainsQueue(s) ==
    IF Aborted(s)
    THEN s
    ELSE [s EXCEPT !.queue.abortController = "aborted",
                   !.queue.nextTaskIndex = Length(s.queue.tasks),
                   !.frames = [i \in DOMAIN @ |->
                                  IF @[i].pc = "awaitTimer"
                                  THEN [@[i] EXCEPT !.pc = "awaitCleared"]
                                  ELSE @[i]]]

\* abortController.abort(): sets the flag once and runs the abort listeners, each of
\* which clears the timer of a backoff wait.
Abort(s) ==
    IF Aborted(s)
    THEN s
    ELSE [s EXCEPT !.queue.abortController = "aborted",
                   !.frames = [i \in DOMAIN @ |->
                                  IF @[i].pc = "awaitTimer"
                                  THEN [@[i] EXCEPT !.pc = "awaitCleared"]
                                  ELSE @[i]]]

----------------------------------------------------------------------------
State ==
    [queue |-> queue, frames |-> frames, calls |-> calls, promise |-> promise,
     firstInvoked |-> firstInvoked,
     history |-> [history EXCEPT !.justRestarted = FALSE]]

Becomes(s) ==
    /\ queue' = s.queue
    /\ frames' = s.frames
    /\ calls' = s.calls
    /\ promise' = s.promise
    /\ firstInvoked' = s.firstInvoked
    /\ history' = s.history

\* The numbers passed as concurrency: value when integer, value + 1/2 otherwise.
ConcurrencyArgs == [value : -1..MaxConcurrency, integer : BOOLEAN]

\* maxAtSameTime < 1
LessThanOne(x) == x.value < 1

\* Number.isInteger(maxAtSameTime)
IsInteger(x) == x.integer

\* The state of the variable queue when the constructor threw and there is no object.
NoObject ==
    [maxAtSameTime |-> 0,
     retryAttempts |-> 0,
     abortController |-> "null",
     tasks |-> EmptyArray,
     results |-> EmptyArray,
     runningCount |-> 0,
     nextTaskIndex |-> 0,
     finishedCount |-> 0,
     resolveQueue |-> "null"]

\* A constructor that tests only maxAtSameTime < 1.
Constructor_NoIntegerTest(x, r) ==
    IF LessThanOne(x)
    THEN [threw |-> TRUE, object |-> NoObject]
    ELSE [threw |-> FALSE,
          object |-> [NoObject EXCEPT !.maxAtSameTime = x.value, !.retryAttempts = r]]

\* new AsyncQueue(maxAtSameTime, retryAttempts)
Constructor(x, r) ==
    IF LessThanOne(x) \/ ~IsInteger(x)
    THEN [threw |-> TRUE, object |-> NoObject]
    ELSE [threw |-> FALSE,
          object |-> [NoObject EXCEPT !.maxAtSameTime = x.value, !.retryAttempts = r]]

Init ==
    /\ \E x \in ConcurrencyArgs, r \in 0..MaxRetries :
          LET c == Constructor(x, r) IN
          /\ construction = [maxAtSameTime |-> x, threw |-> c.threw]
          /\ queue = c.object
    /\ frames = EmptyArray
    /\ calls = EmptyArray
    /\ promise = [state |-> "none", value |-> EmptyArray]
    /\ inFlightAtCancel = {}
    /\ firstInvoked = <<>>
    /\ history = [resultsObject |-> "fresh", previousModified |-> FALSE, justRestarted |-> FALSE]

\* A run that creates an AbortController only when the queue has none.
Run_KeepsController(n) ==
    /\ ~construction.threw
    /\ promise.state # "pending"
    /\ UNCHANGED construction
    /\ inFlightAtCancel' = {}
    /\ LET s0 == [queue |-> [queue EXCEPT !.tasks = [i \in 0..(n - 1) |-> i],
                                          !.results = [i \in 0..(n - 1) |-> NullResult],
                                          !.abortController = IF @ = "null" THEN "active" ELSE @,
                                          !.nextTaskIndex = 0,
                                          !.runningCount = 0,
                                          !.finishedCount = 0,
                                          !.resolveQueue = "set"],
                  frames |-> [i \in 0..(n - 1) |-> NewFrame],
                  calls |-> [i \in 0..(n - 1) |-> <<>>],
                  promise |-> [state |-> "pending", value |-> EmptyArray],
                  firstInvoked |-> <<>>,
                  history |-> [resultsObject |-> "fresh",
                               previousModified |-> FALSE,
                               justRestarted |-> promise.state = "resolved"
                                                 /\ queue.abortController = "aborted"]]
       IN  IF n = 0
           THEN Becomes(ResolveQueue(s0, EmptyArray))
           ELSE Becomes(ProcessBatch(s0, InitialBatch(s0.queue)))

\* run(tasks) with an array of n tasks, called when no earlier run is in flight.
Run(n) ==
    /\ ~construction.threw
    /\ promise.state # "pending"
    /\ UNCHANGED construction
    /\ inFlightAtCancel' = {}
    /\ LET s0 == [queue |-> [queue EXCEPT !.tasks = [i \in 0..(n - 1) |-> i],
                                          !.results = [i \in 0..(n - 1) |-> NullResult],
                                          !.abortController = "active",
                                          !.nextTaskIndex = 0,
                                          !.runningCount = 0,
                                          !.finishedCount = 0,
                                          !.resolveQueue = "set"],
                  frames |-> [i \in 0..(n - 1) |-> NewFrame],
                  calls |-> [i \in 0..(n - 1) |-> <<>>],
                  promise |-> [state |-> "pending", value |-> EmptyArray],
                  firstInvoked |-> <<>>,
                  history |-> [resultsObject |-> "fresh",
                               previousModified |-> FALSE,
                               justRestarted |-> promise.state = "resolved"
                                                 /\ queue.abortController = "aborted"]]
       IN  IF n = 0
           THEN Becomes(ResolveQueue(s0, EmptyArray))
           ELSE Becomes(ProcessBatch(s0, InitialBatch(s0.queue)))

\* The invocation of tasks[i] resolves: runTaskWithRetry returns a success record.
TaskResolves(i) ==
    /\ frames[i].pc = "awaitTask"
    /\ LET s1 == [State EXCEPT !.calls[i] = [@ EXCEPT ![Len(@)] = "ok"]]
       IN  Becomes([s1 EXCEPT !.frames[i].pc = "settled",
                              !.frames[i].ret =
                                  Returned(Success(TaskValue(i, frames[i].attempt)))])
    /\ UNCHANGED <<inFlightAtCancel, construction>>

\* The invocation of tasks[i] throws or rejects.
TaskRejects(i, isErr) ==
    /\ frames[i].pc = "awaitTask"
    /\ Becomes(CatchFailure(State, i, TaskFailure(i, frames[i].attempt, isErr)))
    /\ UNCHANGED <<inFlightAtCancel, construction>>

\* The backoff timer of index i fires and the retry loop goes to its next iteration.
TimerFires(i) ==
    /\ frames[i].pc = "awaitTimer"
    /\ Becomes(LoopHead(State, i, frames[i].attempt + 1))
    /\ UNCHANGED <<inFlightAtCancel, construction>>

\* The continuation of _processNext for index i, once runTaskWithRetry has settled.
Resume(i) ==
    /\ frames[i].pc = "settled"
    /\ Becomes(ResumeProcessNext(State, i))
    /\ UNCHANGED <<inFlightAtCancel, construction>>

\* cancelAll()
CancelAll ==
    /\ ~construction.threw
    /\ UNCHANGED construction
    /\ IF queue.abortController # "null" THEN Becomes(Abort(State)) ELSE Becomes(State)
    /\ inFlightAtCancel' = IF queue.abortController = "active"
                           THEN {i \in DOMAIN frames : frames[i].pc = "awaitTask"}
                           ELSE inFlightAtCancel

Next ==
    \/ \E n \in 0..MaxTasks : Run(n)
    \/ \E i \in DOMAIN frames : TaskResolves(i)
    \/ \E i \in DOMAIN frames, isErr \in BOOLEAN : TaskRejects(i, isErr)
    \/ \E i \in DOMAIN frames : TimerFires(i)
    \/ \E i \in DOMAIN frames : Resume(i)
    \/ CancelAll

Spec == Init /\ [][Next]_vars

\* Each task invocation eventually settles, timers fire and continuations run.
Settle(i) == i \in DOMAIN frames /\ (TaskResolves(i) \/ \E isErr \in BOOLEAN : TaskRejects(i, isErr))

Fairness ==
    \A i \in 0..(MaxTasks - 1) :
        /\ WF_vars(Settle(i))
        /\ WF_vars(i \in DOMAIN frames /\ TimerFires(i))
        /\ WF_vars(i \in DOMAIN frames /\ Resume(i))

FairSpec == Spec /\ Fairness

----------------------------------------------------------------------------
\* Properties.

Last(seq) == seq[Len(seq)]

Indices == DOMAIN frames

\* The indices claimed whose outcome is not yet written into results.
InFlight == {i \in Indices : frames[i].pc \notin {"unclaimed", "finished"}}

Pending == promise.state = "pending"

Resolved == promise.state = "resolved"

Cancelled == queue.abortController = "aborted"

\* A result record that records a cancellation rather than a failure of the task.
IsCancellation(rec) == rec.status = "captured" /\ rec.error.task = -1

\* C1 - Concurrency ceiling: the number of indices claimed but not yet written into
\* results is runningCount and never exceeds the concurrency the queue was built with.
C1_ConcurrencyCeiling ==
    /\ Cardinality(InFlight) <= queue.maxAtSameTime
    /\ queue.runningCount = Cardinality(InFlight)

C1_Witness ==
    /\ queue.maxAtSameTime >= 2
    /\ Cardinality(InFlight) = queue.maxAtSameTime
    /\ \E i \in Indices : frames[i].pc = "finished"
    /\ \E i \in Indices : frames[i].pc = "awaitTimer"

\* C2 - Run termination: when every invocation settles, a pending run eventually resolves,
\* whenever cancelAll is called.
C2_RunTerminates == Pending ~> Resolved

\* C3 - Complete ordered result: a resolved run delivers exactly one slot per task, none
\* unset, and slot i holds the outcome of tasks[i]; an empty run delivers [] without
\* any invocation.
C3_CompleteOrderedResult ==
    Resolved =>
        /\ DOMAIN promise.value = DOMAIN queue.tasks
        /\ \A i \in DOMAIN promise.value :
              LET rec == promise.value[i] IN
              /\ rec.status \in {"success", "captured"}
              /\ rec.status = "success" =>
                    /\ rec.value.task = queue.tasks[i]
                    /\ Len(calls[i]) > 0 /\ Last(calls[i]) = "ok"
              /\ rec.status = "captured" /\ ~IsCancellation(rec) =>
                    /\ rec.error.task = queue.tasks[i]
                    /\ Len(calls[i]) > 0 /\ Last(calls[i]) = "err"
        /\ Length(queue.tasks) = 0 => promise.value = EmptyArray /\ calls = EmptyArray

C3_Witness ==
    /\ Resolved
    /\ Length(queue.tasks) = 3
    /\ ~Cancelled
    /\ promise.value[0].status = "captured"
    /\ promise.value[1].status = "success"
    /\ promise.value[2].status = "success"
    /\ promise.value[2].value.attempt = 1

\* C4 - Interruptible backoff: a task whose backoff wait is cut by cancelAll ends with a
\* cancellation outcome in its slot.
C4_InterruptibleBackoff ==
    \A i \in 0..(MaxTasks - 1) :
        (i \in Indices /\ frames[i].pc = "awaitCleared")
            ~> (i \in Indices /\ IsCancellation(queue.results[i]))

\* C5 - Cancellation stops new work: while a cancelled run is pending, no step claims an
\* index or begins an invocation.
C5_CancellationStopsNewWork ==
    [][(Cancelled /\ Pending) =>
          /\ queue'.nextTaskIndex = queue.nextTaskIndex
          /\ \A i \in Indices : Len(calls'[i]) = Len(calls[i])]_vars

C5_Witness ==
    /\ Cancelled
    /\ Resolved
    /\ queue.nextTaskIndex < Length(queue.tasks)
    /\ \E i \in Indices : IsCancellation(queue.results[i]) /\ Len(calls[i]) = 1

\* C6 - Cancellation is non-preemptive: an invocation in flight when cancelAll is called
\* that then succeeds puts success with its own value into its slot, and the run does not
\* resolve before it has settled.
C6_NonPreemptive ==
    \A i \in inFlightAtCancel :
        /\ frames[i].pc = "awaitTask" => Pending
        /\ (frames[i].pc = "finished" /\ Last(calls[i]) = "ok") =>
              queue.results[i] = Success(TaskValue(queue.tasks[i], Len(calls[i]) - 1))
        /\ (Resolved /\ Last(calls[i]) = "ok") =>
              promise.value[i] = Success(TaskValue(queue.tasks[i], Len(calls[i]) - 1))

C6_Witness ==
    /\ Resolved
    /\ \E i \in inFlightAtCancel : promise.value[i].status = "success"
    /\ \E i \in Indices : frames[i].pc = "unclaimed"

\* C7 - Cancellation fill: when a cancelled run resolves, every index never claimed gets
\* the captured record with the fixed message, and every slot already written is
\* delivered unchanged.
C7_CancellationFill ==
    [][(Pending /\ promise'.state = "resolved" /\ queue'.abortController = "aborted") =>
          \A i \in Indices :
              /\ frames[i].pc = "unclaimed" =>
                    promise'.value[i] = Captured(NewError(FillCancelMessage))
              /\ queue.results[i] # NullResult =>
                    promise'.value[i] = queue.results[i]]_vars

C7_Witness ==
    /\ Resolved
    /\ \E i \in Indices : frames[i].pc = "unclaimed"
    /\ \E i \in Indices : frames[i].pc = "finished" /\ promise.value[i].status = "success"
    /\ \E i \in Indices : frames[i].pc = "finished" /\ promise.value[i].status = "captured"

\* C8 - Retry correctness: without cancellation a task that fails K <= retryAttempts
\* times and then succeeds is invoked K+1 times, no attempt follows the success, and its
\* slot holds success with the value of the successful attempt; the retry loop does not
\* give up before retryAttempts + 1 invocations.
C8_RetryCorrectness ==
    ~Cancelled =>
        \A i \in Indices :
            LET n == Len(calls[i]) IN
            /\ \A k \in 1..(n - 1) : calls[i][k] = "err"
            /\ n <= queue.retryAttempts + 1
            /\ (n > 0 /\ calls[i][n] = "ok") =>
                  /\ frames[i].pc \in {"settled", "finished"}
                  /\ frames[i].pc = "finished" =>
                        queue.results[i] = Success(TaskValue(queue.tasks[i], n - 1))
                  /\ Resolved => promise.value[i] = Success(TaskValue(queue.tasks[i], n - 1))
            /\ (frames[i].pc \in {"settled", "finished"} /\ (n = 0 \/ calls[i][n] = "err")) =>
                  n = queue.retryAttempts + 1

C8_Witness ==
    /\ ~Cancelled
    /\ Resolved
    /\ \E i \in Indices :
          /\ queue.retryAttempts >= 1
          /\ calls[i] = [k \in 1..(queue.retryAttempts + 1) |->
                            IF k <= queue.retryAttempts THEN "err" ELSE "ok"]
          /\ promise.value[i].status = "success"

\* C9 - Retry exhaustion: without cancellation a task that fails on every attempt is
\* invoked exactly retryAttempts + 1 times and its slot holds captured with the error of
\* the last attempt, as an Error object.
C9_RetryExhaustion ==
    ~Cancelled =>
        \A i \in Indices :
            (frames[i].pc = "finished" /\ \A k \in 1..Len(calls[i]) : calls[i][k] = "err") =>
                /\ Len(calls[i]) = queue.retryAttempts + 1
                /\ queue.results[i] =
                      Captured(TaskFailure(queue.tasks[i], queue.retryAttempts, TRUE))
                /\ Resolved => promise.value[i] = queue.results[i]

C9_Witness ==
    /\ ~Cancelled
    /\ Resolved
    /\ queue.retryAttempts >= 1
    /\ \E i \in Indices :
          /\ Len(calls[i]) = queue.retryAttempts + 1
          /\ promise.value[i].status = "captured"

\* C10 - Uniform cancellation outcome: every slot that records a cancellation carries the
\* one fixed message 'Task cancelled via cancelAll()'.
C10_UniformCancellation ==
    \A i \in DOMAIN queue.results :
        IsCancellation(queue.results[i]) =>
            queue.results[i].error.message = FillCancelMessage

\* The outcome that the invocations of tasks[i] alone determine, without cancellation.
OwnOutcome(i) ==
    IF Last(calls[i]) = "ok"
    THEN Success(TaskValue(queue.tasks[i], Len(calls[i]) - 1))
    ELSE Captured(TaskFailure(queue.tasks[i], queue.retryAttempts, TRUE))

\* C11 - Failure isolation: without cancellation a captured task neither aborts the run
\* nor stops its chain: while indices are unclaimed the ceiling stays filled, and a
\* resolved run has invoked every task and delivers for each the outcome of its own
\* invocations.
C11_FailureIsolation ==
    ~Cancelled =>
        /\ ((\E i \in Indices : queue.results[i].status = "captured")
              /\ queue.nextTaskIndex < Length(queue.tasks)) =>
                 Pending /\ Cardinality(InFlight) = queue.maxAtSameTime
        /\ Resolved =>
              \A i \in Indices : Len(calls[i]) >= 1 /\ promise.value[i] = OwnOutcome(i)

C11_Witness ==
    /\ ~Cancelled
    /\ Resolved
    /\ Length(queue.tasks) = 3
    /\ queue.maxAtSameTime = 2
    /\ promise.value[0].status = "success"
    /\ promise.value[1].status = "captured"
    /\ promise.value[2].status = "success"

\* C12 - Construction validation: the constructor throws exactly when the concurrency is
\* not a positive integer; then there is no runner, no run starts and no task is
\* invoked; every positive integer is accepted and becomes the ceiling.
C12_ConstructionValidation ==
    LET x == construction.maxAtSameTime IN
    /\ construction.threw <=> ~(x.integer /\ x.value >= 1)
    /\ construction.threw => queue = NoObject /\ promise.state = "none" /\ calls = EmptyArray
    /\ ~construction.threw => queue.maxAtSameTime = x.value

C12_Witness ==
    /\ construction.threw
    /\ construction.maxAtSameTime.value >= 1
    /\ ~construction.maxAtSameTime.integer

\* C13 - Exactly-once claim and write: the claimed indices are those below the cursor and
\* each is counted once; within a run the cursor never decreases, a claim takes the index
\* at the cursor and advances it by one, a claimed index is not claimed again, and a
\* written slot keeps its record, also through the cancellation fill.
C13_ExactlyOnce ==
    [][/\ \A i \in DOMAIN frames' :
             frames'[i].pc # "unclaimed" <=> i < queue'.nextTaskIndex
       /\ queue'.runningCount + queue'.finishedCount = queue'.nextTaskIndex
       /\ Pending =>
             /\ queue'.nextTaskIndex >= queue.nextTaskIndex
             /\ \A i \in Indices :
                   /\ queue.results[i] # NullResult =>
                         queue'.results[i] = queue.results[i]
                   /\ frames[i].pc # "unclaimed" =>
                         /\ frames'[i].pc # "unclaimed"
                         /\ Len(calls'[i]) > Len(calls[i]) =>
                               frames'[i].attempt = frames[i].attempt + 1
                   /\ (frames[i].pc = "unclaimed" /\ frames'[i].pc # "unclaimed") =>
                         i = queue.nextTaskIndex /\ queue'.nextTaskIndex = i + 1
                   /\ (queue.results[i] = NullResult /\ queue'.results[i] # NullResult) =>
                         frames[i].pc \in {"settled", "unclaimed"}]_vars

C13_Witness ==
    /\ Resolved
    /\ Cancelled
    /\ queue.maxAtSameTime = 2
    /\ queue.nextTaskIndex = 2
    /\ Length(queue.tasks) = 3
    /\ \A i \in Indices : queue.results[i].status = "captured"
    /\ queue.results[0].error.message = "fail"

\* C14 - Completion condition: a non-empty run has delivered its array only with
\* runningCount 0, no claimed index without a written outcome, and the cursor at the end
\* or cancellation requested.
C14_CompletionCondition ==
    (Resolved /\ Length(queue.tasks) > 0) =>
        /\ queue.runningCount = 0
        /\ InFlight = {}
        /\ \A i \in Indices : frames[i].pc # "unclaimed" => queue.results[i] # NullResult
        /\ queue.nextTaskIndex >= Length(queue.tasks) \/ Cancelled

C14_Witness ==
    /\ Resolved
    /\ Cancelled
    /\ queue.maxAtSameTime = 1
    /\ queue.nextTaskIndex = 1
    /\ Length(queue.tasks) = 2
    /\ queue.results[0].status = "success"

\* C15 - Work conservation: in a pending run that is not cancelled, while unclaimed
\* indices remain exactly min(concurrency, tasks.length) tasks are in flight.
C15_WorkConservation ==
    (Pending /\ ~Cancelled /\ queue.nextTaskIndex < Length(queue.tasks)) =>
        /\ Cardinality(InFlight) = Min(queue.maxAtSameTime, Length(queue.tasks))
        /\ queue.runningCount = Min(queue.maxAtSameTime, Length(queue.tasks))

C15_Witness ==
    /\ Pending
    /\ ~Cancelled
    /\ queue.nextTaskIndex < Length(queue.tasks)
    /\ \E i \in Indices : frames[i].pc = "finished"
    /\ \E i \in Indices : frames[i].pc = "awaitTask" /\ i > 0

Invoked(i) == Len(calls[i]) > 0

\* C16 - FIFO dispatch: every invoked index appears once in the order of first
\* invocations, and for i < j, if j has been invoked then i was first invoked before j.
C16_FifoDispatch ==
    /\ \A j \in Indices :
          Invoked(j) <=> Cardinality({k \in 1..Len(firstInvoked) : firstInvoked[k] = j}) = 1
    /\ \A i, j \in Indices :
          (i < j /\ Invoked(j)) =>
              \E a, b \in 1..Len(firstInvoked) :
                  a < b /\ firstInvoked[a] = i /\ firstInvoked[b] = j

\* Task 2 has been invoked after task 1 finished while task 0 is still in flight.
C16_Witness ==
    /\ Len(firstInvoked) = 3
    /\ frames[0].pc = "awaitTask"
    /\ frames[1].pc = "finished"
    /\ frames[2].pc = "awaitTask"

\* The record that index i has or will have in its slot once runTaskWithRetry has settled.
SettledRecord(i) ==
    IF frames[i].pc = "finished" THEN queue.results[i]
    ELSE IF frames[i].ret.kind = "return" THEN frames[i].ret.result
    ELSE Captured(NormalizeError(frames[i].ret.error))

\* C17 - Cancellation observed by the retry loop: when the attempt in flight at cancelAll
\* fails, the loop neither waits nor invokes the task again; with retries remaining the
\* outcome is a captured cancellation, on the last permitted attempt it is captured with
\* the task's own last error.
C17_CancelObservedByRetryLoop ==
    \A i \in inFlightAtCancel :
        LET n == Len(calls[i]) IN
        calls[i][n] = "err" =>
            /\ frames[i].pc \in {"settled", "finished"}
            /\ frames[i].pc = "settled" => frames[i].attempt = n
            /\ n <= queue.retryAttempts =>
                  /\ IsCancellation(SettledRecord(i))
                  /\ SettledRecord(i).error.message # "fail"
            /\ n > queue.retryAttempts =>
                  SettledRecord(i) =
                      Captured(TaskFailure(queue.tasks[i], queue.retryAttempts, TRUE))
            /\ Resolved => promise.value[i] = SettledRecord(i)

C17_Witness ==
    \E i, j \in inFlightAtCancel :
        /\ frames[i].pc = "finished" /\ frames[j].pc = "finished"
        /\ Last(calls[i]) = "err" /\ Last(calls[j]) = "err"
        /\ IsCancellation(queue.results[i])
        /\ queue.results[j].error.message = "fail"

\* C18 - cancelAll is idempotent and one-way: a set flag stays set while the run is
\* pending; cancelAll never changes results, nextTaskIndex or runningCount; a second
\* cancelAll, or one before any run, changes nothing.
C18_CancelAllIdempotent ==
    [][/\ (Cancelled /\ Pending) => queue'.abortController = "aborted"
       /\ CancelAll =>
             /\ queue'.results = queue.results
             /\ queue'.nextTaskIndex = queue.nextTaskIndex
             /\ queue'.runningCount = queue.runningCount
             /\ promise' = promise
             /\ (Cancelled \/ queue.abortController = "null") =>
                   /\ queue' = queue
                   /\ frames' = frames
                   /\ calls' = calls
                   /\ inFlightAtCancel' = inFlightAtCancel]_vars

C18_Witness ==
    /\ Cancelled
    /\ Pending
    /\ queue.nextTaskIndex < Length(queue.tasks)
    /\ \E i \in Indices : frames[i].pc = "awaitCleared"
    /\ \E i \in Indices : frames[i].pc = "settled"

\* C19 - Fresh state per sequential run: run() on a runner whose previous run has
\* resolved leaves an unset cancellation flag, a new array of unset slots, the counters of
\* a first run and the initial batch invoked, whatever cancelAll did before; no step
\* writes to the array the previous run delivered.
C19_FreshStatePerRun ==
    [][/\ ~history'.previousModified
       /\ (Resolved /\ \E n \in 0..MaxTasks : Run(n)) =>
             LET batch == Min(queue'.maxAtSameTime, Length(queue'.tasks)) IN
             /\ queue'.abortController = "active"
             /\ history'.resultsObject = "fresh"
             /\ \A i \in DOMAIN queue'.results : queue'.results[i] = NullResult
             /\ DOMAIN queue'.results = DOMAIN queue'.tasks
             /\ queue'.nextTaskIndex = batch
             /\ queue'.runningCount = batch
             /\ queue'.finishedCount = 0
             /\ \A i \in DOMAIN frames' :
                   /\ i < batch => frames'[i].pc = "awaitTask" /\ calls'[i] = <<"pending">>
                   /\ i >= batch => frames'[i].pc = "unclaimed" /\ calls'[i] = <<>>
             /\ Length(queue'.tasks) > 0 => promise'.state = "pending"]_vars

\* run() has just been called again after a cancelled run and has invoked its batch.
C19_Witness ==
    /\ history.justRestarted
    /\ Pending
    /\ ~Cancelled
    /\ \E i \in Indices : frames[i].pc = "awaitTask"
    /\ \E i \in Indices : frames[i].pc = "unclaimed"

\* C20 - Every claimed index gets at least one invocation, and a result of the retry
\* loop's cancellation path only follows a failed attempt of that task.
C20_ClaimedIsInvoked ==
    \A i \in Indices :
        /\ frames[i].pc # "unclaimed" => Invoked(i)
        /\ ((frames[i].pc = "settled" /\ frames[i].ret.kind = "throw")
              \/ queue.results[i] = Captured(NewError(LoopCancelMessage))) =>
                 \E k \in 1..Len(calls[i]) : calls[i][k] = "err"

C20_Witness ==
    /\ Cancelled
    /\ \E i \in Indices : queue.results[i] = Captured(NewError(LoopCancelMessage))
    /\ \E i \in Indices : frames[i].pc = "unclaimed"

====
